---- MODULE Spec2Model ----
(***************************************************************************)
(* A model of tora, a byte-based serialization library: the SerializeIo    *)
(* encoders (src/src/write.rs), the FromReader decoders and PaddedReader   *)
(* (src/src/read.rs) and the code the derive macros generate for structs   *)
(* and enums (src/tora_derive/src/derive_impl.rs).                         *)
(*                                                                         *)
(* Representation.  A byte is a number in 0..255 and a stream is a         *)
(* sequence of bytes.  An integer or float value of a w-byte type is kept  *)
(* as the w base-256 digits of its bit pattern, most significant digit     *)
(* first (0x00000005 is <<0,0,0,5>>): the widths are the real ones, and no *)
(* value has to fit a model-checker integer.  A type is a tuple headed by  *)
(* its kind; a String is the sequence of its UTF-8 bytes; an Option is     *)
(* <<"None">> or <<"Some", v>>; a Result is <<"Ok", v>> or <<"Err", e>>;   *)
(* arrays, tuples, structs and Vecs are sequences of their items; an enum  *)
(* value is <<i, fields>> with i the 0-based position of its variant in    *)
(* the declaration.  A Vec<()> holds no data but its length, and is kept   *)
(* as that length, a usize.                                                *)
(***************************************************************************)
EXTENDS Integers, Sequences, FiniteSets, TLC

VARIABLES stream, padding, inforce, pending, last

vars == <<stream, padding, inforce, pending, last>>

(***************************************************************************)
(* Bounds of the model.                                                    *)
(***************************************************************************)
\* raw bytes a peer may put on the stream one by one
MaxRaw == 3
\* values written back to back before they are read
MaxWrites == 2
\* largest padding a PaddedReader is given
MaxPadding == 3
\* variants of the sample enum that outgrows a u8 tag
NWide == 257
\* variants of the sample enum that outgrows an i8 tag
NSigned == 129

\* size_of::<usize>() on a 64-bit target
UsizeBytes == 8
\* size_of::<u32>(), the width of a Vec's length prefix
U32Bytes == 4

Byte == 0..255

Min(a, b) == IF a < b THEN a ELSE b

Drop(s, n) == SubSeq(s, n + 1, Len(s))

Reverse(s) == [k \in 1..Len(s) |-> s[Len(s) + 1 - k]]

Repeat(x, n) == [k \in 1..n |-> x]

RECURSIVE Pow256(_)
Pow256(e) == IF e = 0 THEN 1 ELSE 256 * Pow256(e - 1)

(***************************************************************************)
(* Fixed-width numbers.                                                    *)
(***************************************************************************)
\* the usize (or other w-byte) literal of a small natural number i < 2^31,
\* as rustc types the literal `#variant_id` and as Vec::len() returns it
Lit(i, w) ==
    [k \in 1..w |-> IF w - k >= 4 THEN 0 ELSE (i \div Pow256(w - k)) % 256]

IsZero(x) == \A k \in 1..Len(x) : x[k] = 0

\* x - 1 for a nonzero number x
RECURSIVE Dec(_)
Dec(x) ==
    LET n == Len(x) IN
    IF x[n] > 0 THEN [x EXCEPT ![n] = x[n] - 1]
    ELSE Dec(SubSeq(x, 1, n - 1)) \o <<255>>

\* `x as T` between integer types: truncation to the low w bytes, or
\* extension by the sign of a signed source and by zero of an unsigned one
as_cast(x, signed, w) ==
    IF w <= Len(x) THEN SubSeq(x, Len(x) - w + 1, Len(x))
    ELSE Repeat(IF signed /\ x[1] >= 128 THEN 255 ELSE 0, w - Len(x)) \o x

\* a variant of to_le_bytes: most significant byte first
to_be_bytes(x) == x

to_le_bytes(x) == Reverse(x)

from_le_bytes(buf) == Reverse(buf)

(***************************************************************************)
(* Types.                                                                  *)
(***************************************************************************)
IntTy(w, signed) == <<"int", w, signed>>
U8 == IntTy(1, FALSE)
U32 == IntTy(U32Bytes, FALSE)
U128 == IntTy(16, FALSE)
I8 == IntTy(1, TRUE)
I64 == IntTy(8, TRUE)
I128 == IntTy(16, TRUE)
Usize == IntTy(UsizeBytes, FALSE)
F64 == <<"float", 8>>
Bool == <<"bool">>
Unit == <<"unit">>
String == <<"String">>
OptionTy(T) == <<"Option", T>>
ResultTy(T, E) == <<"Result", T, E>>
ArrayTy(T, N) == <<"Array", T, N>>
TupleTy(Ts) == <<"Tuple", Ts>>
VecTy(T) == <<"Vec", T>>
\* style is "Named" or "Unnamed"; fields are the field types in declared order
StructTy(name, style, fields) == <<"Struct", name, style, fields>>
\* idTy is the type_variant_id attribute (u8 when absent); a variant is
\* <<style, field types>> with style "Named", "Unnamed" or "Unit"
EnumTy(name, idTy, variants) == <<"Enum", name, idTy, variants>>

Kind(T) == T[1]

(***************************************************************************)
(* write.rs: SerializeIo.  The sink is a Vec<u8> or a MockStream, whose    *)
(* write_all appends and never fails, so an encoder is the byte sequence   *)
(* it appends.                                                             *)
(***************************************************************************)
\* `*self as u8` of a bool
bool_as_u8(b) == IF b THEN <<1>> ELSE <<0>>

\* str::ends_with(0u8 as char): U+0000 is the one-byte sequence 00
ends_with_nul(s) == Len(s) > 0 /\ s[Len(s)] = 0

\* a variant of str_serialize: the terminator is always appended
str_serialize_always(s) == s \o <<0>>

\* impl SerializeIo for &str (String delegates to it)
str_serialize(s) == s \o (IF ~ends_with_nul(s) THEN <<0>> ELSE <<>>)

is_some(v) == v[1] = "Some"

is_err(v) == v[1] = "Err"

\* Vec::len(), a usize
vec_len(T, v) == IF Kind(T) = "unit" THEN v ELSE Lit(Len(v), UsizeBytes)

RECURSIVE serialize(_, _)

\* one writes() call per item, in order
RECURSIVE write_fields(_, _)
write_fields(Ts, vs) ==
    IF Ts = <<>> THEN <<>>
    ELSE serialize(Head(Ts), Head(vs)) \o write_fields(Tail(Ts), Tail(vs))

\* a variant of write_vec: the items without their count
write_vec_no_prefix(T, v) ==
    IF Kind(T) = "unit" THEN <<>> ELSE write_fields(Repeat(T, Len(v)), v)

\* dyn_impl!: the length as a u32, then every item
write_vec(T, v) ==
    serialize(U32, as_cast(vec_len(T, v), FALSE, U32Bytes))
        \o (IF Kind(T) = "unit" THEN <<>> ELSE write_fields(Repeat(T, Len(v)), v))

\* a variant of impl_write_struct: the fields in reverse order
impl_write_struct_reversed(fields, v) == write_fields(Reverse(fields), Reverse(v))

\* derive(WriteStruct): writes(&self.#fields)? for each declared field
impl_write_struct(fields, v) == write_fields(fields, v)

\* a variant of to_write_variant: tags counted from 1
to_write_variant_from_one(variant_id, id_ty, fields, vals) ==
    serialize(id_ty, as_cast(Lit(variant_id + 1, UsizeBytes), FALSE, id_ty[2]))
        \o write_fields(fields, vals)

\* one arm of derive(WriteEnum): writes(&(#variant_id as #id_ty)), then the
\* variant's fields
to_write_variant(variant_id, id_ty, fields, vals) ==
    serialize(id_ty, as_cast(Lit(variant_id, UsizeBytes), FALSE, id_ty[2]))
        \o write_fields(fields, vals)

\* derive(WriteEnum): `match self` picks the arm of the value's variant; the
\* arms are numbered by enumerate() over the declared variants
impl_write_enum(id_ty, variants, v) ==
    to_write_variant(v[1], id_ty, variants[v[1] + 1][2], v[2])

serialize(T, v) ==
    CASE Kind(T) = "int" -> to_le_bytes(v)
      [] Kind(T) = "float" -> to_le_bytes(v)
      [] Kind(T) = "bool" -> serialize(U8, bool_as_u8(v))
      [] Kind(T) = "unit" -> <<>>
      [] Kind(T) = "String" -> str_serialize(v)
      [] Kind(T) = "Option" ->
            serialize(Bool, is_some(v))
                \o (IF is_some(v) THEN serialize(T[2], v[2]) ELSE <<>>)
      [] Kind(T) = "Result" ->
            serialize(Bool, is_err(v))
                \o (IF is_err(v) THEN serialize(T[3], v[2]) ELSE serialize(T[2], v[2]))
      [] Kind(T) = "Array" -> write_fields(Repeat(T[2], T[3]), v)
      [] Kind(T) = "Tuple" -> write_fields(T[2], v)
      [] Kind(T) = "Vec" -> write_vec(T[2], v)
      [] Kind(T) = "Struct" -> impl_write_struct(T[4], v)
      [] Kind(T) = "Enum" -> impl_write_enum(T[3], T[4], v)

(***************************************************************************)
(* read.rs: FromReader.  A decoder takes the stream s and returns          *)
(* [kind, val, rest]: kind "Ok" with the value and the stream left, or an  *)
(* io::ErrorKind with the stream as it stood at the read that failed.      *)
(***************************************************************************)
Ok(v, rest) == [kind |-> "Ok", val |-> v, rest |-> rest]

Err(k, rest) == [kind |-> k, val |-> <<>>, rest |-> rest]

\* a variant of read_exact: a short read is padded with zeros
read_exact_short(s, n) ==
    IF Len(s) >= n THEN Ok(SubSeq(s, 1, n), Drop(s, n))
    ELSE Ok(s \o Repeat(0, n - Len(s)), <<>>)

\* Read::read_exact on a buffer of n bytes
read_exact(s, n) ==
    IF Len(s) >= n THEN Ok(SubSeq(s, 1, n), Drop(s, n))
    ELSE Err("UnexpectedEof", s)

IsCont(b) == b >= 128 /\ b <= 191

\* String::from_utf8 succeeds: buf is well-formed UTF-8
RECURSIVE from_utf8_ok(_)
from_utf8_ok(buf) ==
    LET n == Len(buf)
        b == buf[1]
        cont(k) == k <= n /\ IsCont(buf[k])
        in(k, lo, hi) == k <= n /\ buf[k] >= lo /\ buf[k] <= hi
    IN  IF n = 0 THEN TRUE
        ELSE IF b < 128 THEN from_utf8_ok(Drop(buf, 1))
        ELSE IF b >= 194 /\ b <= 223 THEN cont(2) /\ from_utf8_ok(Drop(buf, 2))
        ELSE IF b = 224 THEN in(2, 160, 191) /\ cont(3) /\ from_utf8_ok(Drop(buf, 3))
        ELSE IF b = 237 THEN in(2, 128, 159) /\ cont(3) /\ from_utf8_ok(Drop(buf, 3))
        ELSE IF b >= 225 /\ b <= 239 THEN cont(2) /\ cont(3) /\ from_utf8_ok(Drop(buf, 3))
        ELSE IF b = 240 THEN
            in(2, 144, 191) /\ cont(3) /\ cont(4) /\ from_utf8_ok(Drop(buf, 4))
        ELSE IF b = 244 THEN
            in(2, 128, 143) /\ cont(3) /\ cont(4) /\ from_utf8_ok(Drop(buf, 4))
        ELSE IF b >= 241 /\ b <= 243 THEN
            cont(2) /\ cont(3) /\ cont(4) /\ from_utf8_ok(Drop(buf, 4))
        ELSE FALSE

RECURSIVE from_reader(_, _)

\* a variant of read_bool: only the byte 1 is true
read_bool_strict(s) ==
    LET r == from_reader(U8, s) IN
    IF r.kind = "Ok" THEN Ok(r.val = <<1>>, r.rest) ELSE r

\* impl FromReader for bool: reads::<u8>().map(|x| x != 0)
read_bool(s) ==
    LET r == from_reader(U8, s) IN
    IF r.kind = "Ok" THEN Ok(~IsZero(r.val), r.rest) ELSE r

\* impl FromReader for String: the loop, with buf the bytes pushed so far
RECURSIVE read_string(_, _)
read_string(s, buf) ==
    LET r == from_reader(U8, s) IN
    IF r.kind # "Ok" THEN r
    ELSE IF IsZero(r.val) THEN
        IF from_utf8_ok(buf) THEN Ok(buf, r.rest) ELSE Err("InvalidData", r.rest)
    ELSE read_string(r.rest, Append(buf, r.val[1]))

\* `Ok(Self { f: r.reads()?, ... })`, `(r.reads()?, r.reads()?)`, the array
\* loop: one reads() per item in order, left at the first error
RECURSIVE read_fields(_, _, _)
read_fields(Ts, s, acc) ==
    IF Ts = <<>> THEN Ok(acc, s)
    ELSE LET r == from_reader(Head(Ts), s) IN
         IF r.kind # "Ok" THEN r
         ELSE read_fields(Tail(Ts), r.rest, Append(acc, r.val))

\* `for _ in 0..len { buf.push(r.reads()?) }` with n iterations to go
RECURSIVE read_n(_, _, _, _)
read_n(T, n, s, acc) ==
    IF IsZero(n) THEN Ok(acc, s)
    ELSE LET r == from_reader(T, s) IN
         IF r.kind # "Ok" THEN r
         ELSE read_n(T, Dec(n), r.rest, Append(acc, r.val))

\* impl FromReader for Vec<T>: `reads::<u32>()? as usize`, then the loop; for
\* T = () the loop pushes len units and reads nothing
read_vec(T, s) ==
    LET r == from_reader(U32, s)
        len == as_cast(r.val, FALSE, UsizeBytes)
    IN  IF r.kind # "Ok" THEN r
        ELSE IF Kind(T) = "unit" THEN Ok(len, r.rest)
        ELSE read_n(T, len, r.rest, <<>>)

\* impl FromReader for Option<T>
read_option(T, s) ==
    LET r == from_reader(Bool, s) IN
    IF r.kind # "Ok" THEN r
    ELSE IF r.val THEN
        LET r2 == from_reader(T, r.rest) IN
        IF r2.kind # "Ok" THEN r2 ELSE Ok(<<"Some", r2.val>>, r2.rest)
    ELSE Ok(<<"None">>, r.rest)

\* a variant of read_result: a true flag selects the success type
read_result_swapped(T, E, s) ==
    LET r == from_reader(Bool, s) IN
    IF r.kind # "Ok" THEN r
    ELSE IF r.val THEN
        LET r2 == from_reader(T, r.rest) IN
        IF r2.kind # "Ok" THEN r2 ELSE Ok(<<"Ok", r2.val>>, r2.rest)
    ELSE LET r2 == from_reader(E, r.rest) IN
         IF r2.kind # "Ok" THEN r2 ELSE Ok(<<"Err", r2.val>>, r2.rest)

\* impl FromReader for Result<T, E>
read_result(T, E, s) ==
    LET r == from_reader(Bool, s) IN
    IF r.kind # "Ok" THEN r
    ELSE IF r.val THEN
        LET r2 == from_reader(E, r.rest) IN
        IF r2.kind # "Ok" THEN r2 ELSE Ok(<<"Err", r2.val>>, r2.rest)
    ELSE LET r2 == from_reader(T, r.rest) IN
         IF r2.kind # "Ok" THEN r2 ELSE Ok(<<"Ok", r2.val>>, r2.rest)

\* a variant of impl_read_struct that reads the fields last to first
impl_read_struct_reversed(fields, s) ==
    LET r == read_fields(Reverse(fields), s, <<>>) IN
    IF r.kind # "Ok" THEN r ELSE Ok(Reverse(r.val), r.rest)

\* a variant of impl_read_struct that fills the record with defaults when a
\* field fails
impl_read_struct_lenient(fields, s) ==
    LET r == read_fields(fields, s, <<>>) IN
    IF r.kind = "Ok" THEN r ELSE Ok([k \in 1..Len(fields) |-> <<>>], r.rest)

\* derive(ReadStruct), named or tuple struct
impl_read_struct(fields, s) == read_fields(fields, s, <<>>)

\* the arm `#variant_id => Self::#ident #construction_method`
to_variant_match(variant_id, fields, s) ==
    LET r == read_fields(fields, s, <<>>) IN
    IF r.kind # "Ok" THEN r ELSE Ok(<<variant_id, r.val>>, r.rest)

\* a variant of impl_read_enum: the tag is checked at its own width
impl_read_enum_checked(id_ty, variants, s) ==
    LET r == from_reader(id_ty, s)
        hit == {i \in 0..(Len(variants) - 1) :
                    /\ as_cast(Lit(i, UsizeBytes), FALSE, id_ty[2]) = r.val
                    /\ as_cast(r.val, id_ty[3], UsizeBytes) = Lit(i, UsizeBytes)}
    IN  IF r.kind # "Ok" THEN r
        ELSE IF hit = {} THEN Err("InvalidInput", r.rest)
        ELSE LET i == CHOOSE i \in hit : \A j \in hit : i <= j IN
             to_variant_match(i, variants[i + 1][2], r.rest)

\* derive(ReadEnum): `match reads::<#ty>()? as usize`, one arm per declared
\* variant numbered by enumerate(), the first arm that matches is taken
impl_read_enum(id_ty, variants, s) ==
    LET r == from_reader(id_ty, s)
        id == as_cast(r.val, id_ty[3], UsizeBytes)
        hit == {i \in 0..(Len(variants) - 1) : Lit(i, UsizeBytes) = id}
    IN  IF r.kind # "Ok" THEN r
        ELSE IF hit = {} THEN Err("InvalidInput", r.rest)
        ELSE LET i == CHOOSE i \in hit : \A j \in hit : i <= j IN
             to_variant_match(i, variants[i + 1][2], r.rest)

from_reader(T, s) ==
    CASE Kind(T) \in {"int", "float"} ->
            LET r == read_exact(s, T[2]) IN
            IF r.kind = "Ok" THEN Ok(from_le_bytes(r.val), r.rest) ELSE r
      [] Kind(T) = "bool" -> read_bool(s)
      [] Kind(T) = "unit" -> Ok(<<>>, s)
      [] Kind(T) = "String" -> read_string(s, <<>>)
      [] Kind(T) = "Option" -> read_option(T[2], s)
      [] Kind(T) = "Result" -> read_result(T[2], T[3], s)
      [] Kind(T) = "Array" -> read_fields(Repeat(T[2], T[3]), s, <<>>)
      [] Kind(T) = "Tuple" -> read_fields(T[2], s, <<>>)
      [] Kind(T) = "Vec" -> read_vec(T[2], s)
      [] Kind(T) = "Struct" -> impl_read_struct(T[4], s)
      [] Kind(T) = "Enum" -> impl_read_enum(T[3], T[4], s)

(***************************************************************************)
(* read.rs: PaddedReader.                                                  *)
(***************************************************************************)
\* a variant of PaddedReader_reads that forgets to discard the padding
PaddedReader_reads_no_skip(p, T, s) ==
    LET r == from_reader(T, s) IN
    [kind |-> r.kind, val |-> r.val, rest |-> r.rest, temp |-> <<>>, at |-> "decode"]

\* PaddedReader::reads with self.padding = p: `temp` is the buffer the padding
\* is read into, `at` the statement that returned
PaddedReader_reads(p, T, s) ==
    LET t == read_exact(s, p) IN
    IF t.kind # "Ok"
    THEN [kind |-> t.kind, val |-> <<>>, rest |-> t.rest, temp |-> <<>>, at |-> "padding"]
    ELSE LET r == from_reader(T, t.rest) IN
         [kind |-> r.kind, val |-> r.val, rest |-> r.rest, temp |-> t.val, at |-> "decode"]

\* a variant of reads_then_set_padding that sets the padding before it reads
reads_then_set_padding_early(p, T, s, new_padding) ==
    [res |-> PaddedReader_reads(new_padding, T, s), padding |-> new_padding]

\* a variant of reads_then_set_padding that sets the padding even when the
\* read has failed
reads_then_set_padding_always(p, T, s, new_padding) ==
    [res |-> PaddedReader_reads(p, T, s), padding |-> new_padding]

\* PaddedReader::reads_then_set_padding: `self.reads(r)?` returns early on an
\* error, before `self.padding = new_padding`
reads_then_set_padding(p, T, s, new_padding) ==
    LET r == PaddedReader_reads(p, T, s) IN
    [res |-> r, padding |-> IF r.kind = "Ok" THEN new_padding ELSE p]

(***************************************************************************)
(* PartialEq, as assert_eq! of the tests compares a value with what was    *)
(* read back: structural, but for floats, where a NaN equals nothing and   *)
(* the two zeros are equal.                                                *)
(***************************************************************************)
IsNaN(x) ==
    /\ x[1] % 128 = 127
    /\ x[2] \div 16 = 15
    /\ (x[2] % 16 # 0 \/ \E k \in 3..Len(x) : x[k] # 0)

IsFloatZero(x) == x[1] % 128 = 0 /\ \A k \in 2..Len(x) : x[k] = 0

RECURSIVE partial_eq(_, _, _)
partial_eq(T, a, b) ==
    CASE Kind(T) = "float" ->
            ~IsNaN(a) /\ ~IsNaN(b) /\ (a = b \/ (IsFloatZero(a) /\ IsFloatZero(b)))
      [] Kind(T) = "Option" ->
            a[1] = b[1] /\ (is_some(a) => partial_eq(T[2], a[2], b[2]))
      [] Kind(T) = "Result" ->
            a[1] = b[1] /\ partial_eq(IF is_err(a) THEN T[3] ELSE T[2], a[2], b[2])
      [] Kind(T) = "Array" -> \A k \in 1..T[3] : partial_eq(T[2], a[k], b[k])
      [] Kind(T) = "Tuple" -> \A k \in 1..Len(T[2]) : partial_eq(T[2][k], a[k], b[k])
      [] Kind(T) = "Struct" -> \A k \in 1..Len(T[4]) : partial_eq(T[4][k], a[k], b[k])
      [] Kind(T) = "Vec" ->
            IF Kind(T[2]) = "unit" THEN a = b
            ELSE Len(a) = Len(b) /\ \A k \in 1..Len(a) : partial_eq(T[2], a[k], b[k])
      [] Kind(T) = "Enum" ->
            /\ a[1] = b[1]
            /\ \A k \in 1..Len(a[2]) : partial_eq(T[4][a[1] + 1][2][k], a[2][k], b[2][k])
      [] OTHER -> a = b

(***************************************************************************)
(* The types and values the model writes and reads.                        *)
(***************************************************************************)
\* "John"
John == <<74, 111, 104, 110>>

\* tests.rs: struct TuplePacket(u8, String, Vec<u8>)
TuplePacket == StructTy("TuplePacket", "Unnamed", <<U8, String, VecTy(U8)>>)

\* tests.rs: struct NamedPacket { id, sender, content }
NamedPacket == StructTy("NamedPacket", "Named", <<U8, String, VecTy(U8)>>)

\* tests.rs: #[type_variant_id(i64)] enum EnumPacket
EnumPacket ==
    EnumTy("EnumPacket", I64,
           << <<"Unit", <<>>>>,
              <<"Unnamed", <<U8, String>>>>,
              <<"Named", <<U8, ArrayTy(F64, 3)>>>> >>)

\* lib.rs: struct PlayerJoin { id: u8, username: Option<String> }
PlayerJoin == StructTy("PlayerJoin", "Named", <<U8, OptionTy(String)>>)

\* lib.rs: #[type_variant_id(i64)] enum Packet, with a nested record
Packet ==
    EnumTy("Packet", I64,
           << <<"Unit", <<>>>>,
              <<"Unnamed", <<PlayerJoin>>>>,
              <<"Named", <<U8, ArrayTy(F64, 3)>>>> >>)

UnitVariants(n) == Repeat(<<"Unit", <<>>>>, n)

\* tora_derive lib.rs: enum Packet { PlayerJoin, PlayerQuit }, tagged u8 by default
PacketU8 == EnumTy("PacketU8", U8, UnitVariants(2))

\* an enum of NWide unit variants with the default tag type, u8
EnumWide == EnumTy("Wide", U8, UnitVariants(NWide))

\* an enum of NSigned unit variants tagged i8
EnumSigned == EnumTy("Signed", I8, UnitVariants(NSigned))

\* enums tagged by types wider than usize
EnumU128 == EnumTy("Big", U128, UnitVariants(3))

EnumI128 == EnumTy("BigSigned", I128, UnitVariants(3))

U8Vals == {<<0>>, <<5>>, <<255>>}

U32Vals == {Lit(5, U32Bytes), Lit(1, U32Bytes), <<255, 255, 255, 255>>}

\* "", "John", "J", "é", and strings holding U+0000 at the end or inside
StrVals == {<<>>, John, <<74>>, <<195, 169>>, <<0>>, <<74, 0>>, <<0, 74>>, <<74, 0, 74>>}

VecU8Vals == {<<>>, << <<1>>, <<2>>, <<3>> >>}

VecStrVals == {<<>>, <<John>>, << <<>>, <<74>> >>, << <<74, 0>> >>}

\* lengths 0, 3, 2^32 and 2^32 + 2 of a Vec<()>
VecUnitVals ==
    {Lit(0, UsizeBytes), Lit(3, UsizeBytes),
     <<0, 0, 0, 1, 0, 0, 0, 0>>, <<0, 0, 0, 1, 0, 0, 0, 2>>}

\* 1.4, 3.1, 9.0 and a NaN
F64Vals ==
    {<<63, 246, 102, 102, 102, 102, 102, 102>>, <<64, 8, 204, 204, 204, 204, 204, 205>>,
     <<64, 34, 0, 0, 0, 0, 0, 0>>, <<127, 248, 0, 0, 0, 0, 0, 0>>}

F64ArrVals ==
    { << <<63, 246, 102, 102, 102, 102, 102, 102>>,
         <<64, 8, 204, 204, 204, 204, 204, 205>>,
         <<64, 34, 0, 0, 0, 0, 0, 0>> >>,
      << <<64, 34, 0, 0, 0, 0, 0, 0>>,
         <<127, 248, 0, 0, 0, 0, 0, 0>>,
         <<64, 34, 0, 0, 0, 0, 0, 0>> >> }

OptStrVals == {<<"None">>} \cup {<<"Some", x>> : x \in StrVals}

PacketFields == {<<a, b, c>> : a \in U8Vals, b \in StrVals, c \in VecU8Vals}

PlayerJoinVals == {<<a, b>> : a \in U8Vals, b \in OptStrVals}

PlayerMoveVals == {<<2, <<a, d>>>> : a \in {<<5>>}, d \in F64ArrVals}

\* 2^64, 3, -1 and -(2^64) as 16-byte patterns
TwoTo64 == <<0, 0, 0, 0, 0, 0, 0, 1, 0, 0, 0, 0, 0, 0, 0, 0>>

MinusTwoTo64 ==
    <<255, 255, 255, 255, 255, 255, 255, 255, 0, 0, 0, 0, 0, 0, 0, 0>>

\* every <<type, value>> the model writes to an empty stream
Samples ==
    {<<U8, x>> : x \in U8Vals}
    \cup {<<U32, x>> : x \in U32Vals}
    \cup {<<Bool, x>> : x \in BOOLEAN}
    \cup {<<Unit, <<>>>>}
    \cup {<<String, x>> : x \in StrVals}
    \cup {<<F64, x>> : x \in F64Vals}
    \cup {<<OptionTy(String), x>> : x \in OptStrVals}
    \cup {<<ResultTy(U8, String), <<"Ok", x>>>> : x \in U8Vals}
    \cup {<<ResultTy(U8, String), <<"Err", x>>>> : x \in StrVals}
    \cup {<<ArrayTy(U8, 3), << <<255>>, <<255>>, <<255>> >> >>}
    \cup {<<TupleTy(<<U8, Bool>>), <<a, b>>>> : a \in U8Vals, b \in BOOLEAN}
    \cup {<<TupleTy(<<String, String, U8>>), <<a, b, <<5>>>>>> :
            a \in StrVals, b \in {<<>>, <<74>>}}
    \cup {<<VecTy(U8), x>> : x \in VecU8Vals}
    \cup {<<VecTy(String), x>> : x \in VecStrVals}
    \cup {<<VecTy(Unit), x>> : x \in VecUnitVals}
    \cup {<<NamedPacket, x>> : x \in PacketFields}
    \cup {<<TuplePacket, x>> : x \in PacketFields}
    \cup {<<PlayerJoin, x>> : x \in PlayerJoinVals}
    \cup {<<EnumPacket, <<0, <<>>>>>>}
    \cup {<<EnumPacket, <<1, <<a, b>>>>>> : a \in U8Vals, b \in StrVals}
    \cup {<<EnumPacket, x>> : x \in PlayerMoveVals}
    \cup {<<Packet, <<0, <<>>>>>>}
    \cup {<<Packet, <<1, <<x>>>>>> : x \in PlayerJoinVals}
    \cup {<<Packet, x>> : x \in PlayerMoveVals}
    \cup {<<PacketU8, <<i, <<>>>>>> : i \in 0..1}
    \cup {<<EnumWide, <<i, <<>>>>>> : i \in 0..(NWide - 1)}
    \cup {<<EnumSigned, <<i, <<>>>>>> : i \in 0..(NSigned - 1)}
    \cup {<<EnumU128, <<i, <<>>>>>> : i \in 0..2}
    \cup {<<EnumI128, <<i, <<>>>>>> : i \in 0..2}
    \cup {<<U128, TwoTo64>>, <<U128, Lit(3, 16)>>, <<I128, MinusTwoTo64>>,
          <<I64, Lit(3, 8)>>, <<I64, Repeat(255, 8)>>, <<I8, <<255>>>>}

\* what the model writes behind bytes already on the stream
ChainSamples ==
    {<<U8, <<5>>>>, <<Bool, TRUE>>, <<U32, Lit(5, U32Bytes)>>,
     <<String, John>>, <<String, <<74, 0>>>>,
     <<ArrayTy(U8, 3), << <<255>>, <<255>>, <<255>> >> >>,
     <<VecTy(U8), << <<1>>, <<2>>, <<3>> >> >>,
     <<NamedPacket, <<<<5>>, John, << <<1>>, <<2>>, <<3>> >> >> >>,
     <<EnumPacket, <<1, <<<<5>>, John>>>>>>,
     <<EnumWide, <<NWide - 1, <<>>>>>>}

ReadTypes == {tv[1] : tv \in Samples}

\* the types read from a stream of raw bytes
RawReadTypes ==
    {U8, Bool, Unit, U32, String, OptionTy(String), ResultTy(U8, String),
     TupleTy(<<U8, Bool>>), VecTy(U8), VecTy(String), NamedPacket, PlayerJoin,
     PacketU8, EnumWide, EnumSigned}

\* the types a written integer is read back as besides its own: an enum it
\* tags, a Vec it counts, a bool
Confused(T) ==
    IF Kind(T) # "int" THEN {}
    ELSE {E \in ReadTypes : Kind(E) = "Enum" /\ E[3] = T}
         \cup (IF T = U32 THEN {VecTy(U8), VecTy(String), VecTy(Unit)} ELSE {})
         \cup (IF T = U8 THEN {Bool, OptionTy(String)} ELSE {})

\* what the model writes for a PaddedReader: gaps of 1 and 3 bytes, and values
PaddedSamples ==
    {<<U8, <<255>>>>, <<ArrayTy(U8, 3), << <<255>>, <<255>>, <<255>> >> >>,
     <<U8, <<5>>>>, <<U32, Lit(5, U32Bytes)>>, <<String, John>>}

PaddedTypes == {U8, U32, Unit, String, VecTy(U8)}

\* bytes a peer sends one at a time
RawBytes == {0, 1, 2, 255}

(***************************************************************************)
(* The state: the stream (a MockStream, or a Cursor past its position),    *)
(* the PaddedReader's padding, and what the last call was given and        *)
(* returned.  `pending` lists the values written and not yet read while    *)
(* the stream holds nothing else; `inforce` follows the caller's updates   *)
(* of the padding: the initial one, then the value given to the latest     *)
(* set_padding or successful reads_then_set_padding.  A run fills the      *)
(* stream, then reads from it, and stops at the first call that returns an *)
(* error.                                                                  *)
(***************************************************************************)
\* the padding the caller last asked for, and the call that set it
Set(by, p) == [by |-> by, val |-> p]

NoCall ==
    [op |-> "new", ty |-> <<>>, arg |-> <<>>, before |-> <<>>, whole |-> <<>>,
     alone |-> FALSE, pad |-> 0, force |-> Set("", 0), src |-> <<>>, kind |-> "",
     val |-> <<>>, temp |-> <<>>, at |-> ""]

Init ==
    /\ stream = <<>>
    /\ padding = 0
    /\ inforce = Set("default", 0)
    /\ pending = <<>>
    /\ last = NoCall

\* PaddedReader::with_padding(p); PaddedReader::default() is p = 0
InitPadded ==
    /\ stream = <<>>
    /\ padding \in 0..MaxPadding
    /\ inforce = Set("with_padding", padding)
    /\ pending = <<>>
    /\ last = NoCall

Filling == last.op \in {"new", "writes", "write"}

\* what a failed call may leave on the stream: a read_exact that meets the
\* end of the stream has consumed an unspecified part of what was left
After(r) == IF r.kind = "UnexpectedEof" THEN {r.rest, <<>>} ELSE {r.rest}

\* stream.writes(&v)
Writes(S) ==
    /\ Filling
    /\ Len(pending) < MaxWrites
    /\ pending = <<>> => Len(stream) <= MaxRaw
    /\ \E tv \in S :
        /\ stream' = stream \o serialize(tv[1], tv[2])
        /\ pending' = IF stream = <<>> \/ pending # <<>>
                      THEN Append(pending, tv) ELSE <<>>
        /\ last' = [NoCall EXCEPT !.op = "writes", !.ty = tv[1], !.arg = tv[2],
                                  !.before = stream, !.pad = padding,
                                  !.force = inforce, !.kind = "Ok"]
        /\ UNCHANGED <<padding, inforce>>

\* a byte put on the stream by something other than writes(), ahead of what
\* writes() appends
WriteRaw ==
    /\ last.op \in {"new", "write"}
    /\ Len(stream) < MaxRaw
    /\ \E b \in RawBytes :
        /\ stream' = Append(stream, b)
        /\ pending' = <<>>
        /\ last' = [NoCall EXCEPT !.op = "write", !.arg = b, !.before = stream,
                                  !.pad = padding, !.force = inforce, !.kind = "Ok"]
        /\ UNCHANGED <<padding, inforce>>

\* the stream ends early: only the first k bytes of one written value arrive
Cut ==
    /\ last.op = "writes"
    /\ Len(pending) = 1
    /\ \E k \in 0..(Len(stream) - 1) :
        /\ stream' = SubSeq(stream, 1, k)
        /\ pending' = <<>>
        /\ last' = [NoCall EXCEPT !.op = "cut", !.ty = last.ty, !.before = stream,
                                  !.pad = padding, !.force = inforce, !.kind = "Ok"]
        /\ UNCHANGED <<padding, inforce>>

\* the value a reads::<T>() is expected to return, if the stream holds
\* written values only
Source(T) ==
    IF pending # <<>> /\ Head(pending)[1] = T THEN <<Head(pending)[2]>> ELSE <<>>

\* the types the model reads in a state
TypesToRead ==
    IF pending # <<>> THEN {Head(pending)[1]} \cup Confused(Head(pending)[1])
    ELSE IF last.op = "cut" THEN {last.ty}
    ELSE IF last.op = "reads" /\ stream = <<>> THEN {}
    ELSE IF Len(stream) <= MaxRaw THEN RawReadTypes
    ELSE {}

\* stream.reads::<T>()
Reads ==
    /\ last.kind \in {"", "Ok"}
    /\ \E T \in TypesToRead :
        LET r == from_reader(T, stream) IN
        /\ stream' \in After(r)
        /\ pending' = IF Source(T) # <<>> /\ r.kind = "Ok" THEN Tail(pending) ELSE <<>>
        /\ last' = [NoCall EXCEPT !.op = "reads", !.ty = T, !.before = stream,
                                  !.whole = IF last.op = "cut" THEN <<last.before>> ELSE <<>>,
                                  !.alone = last.op = "writes" /\ Len(pending) = 1,
                                  !.pad = padding, !.force = inforce,
                                  !.src = Source(T), !.kind = r.kind, !.val = r.val]
        /\ UNCHANGED <<padding, inforce>>

\* padded.reads::<T, _>(&mut stream)
PaddedReads ==
    /\ last.kind \in {"", "Ok"}
    /\ \E T \in PaddedTypes :
        LET r == PaddedReader_reads(padding, T, stream) IN
        /\ stream' \in After(r)
        /\ pending' = <<>>
        /\ last' = [NoCall EXCEPT !.op = "padded_reads", !.ty = T, !.before = stream,
                                  !.pad = padding, !.force = inforce,
                                  !.kind = r.kind, !.val = r.val,
                                  !.temp = r.temp, !.at = r.at]
        /\ UNCHANGED <<padding, inforce>>

\* padded.reads_then_set_padding::<T, _>(&mut stream, new_padding)
ReadsThenSetPadding ==
    /\ last.kind \in {"", "Ok"}
    /\ \E T \in PaddedTypes, new_padding \in 0..MaxPadding :
        LET c == reads_then_set_padding(padding, T, stream, new_padding) IN
        /\ stream' \in After(c.res)
        /\ padding' = c.padding
        /\ inforce' = IF c.res.kind = "Ok"
                      THEN Set("reads_then_set_padding", new_padding) ELSE inforce
        /\ pending' = <<>>
        /\ last' = [NoCall EXCEPT !.op = "reads_then_set_padding", !.ty = T,
                                  !.arg = new_padding, !.before = stream,
                                  !.pad = padding, !.force = inforce,
                                  !.kind = c.res.kind, !.val = c.res.val,
                                  !.temp = c.res.temp, !.at = c.res.at]

\* padded.set_padding(p)
SetPadding ==
    /\ last.op # "set_padding"
    /\ \E p \in 0..MaxPadding :
        /\ padding' = p
        /\ inforce' = Set("set_padding", p)
        /\ last' = [NoCall EXCEPT !.op = "set_padding", !.arg = p, !.before = stream,
                                  !.pad = padding, !.force = inforce, !.kind = "Ok"]
        /\ UNCHANGED <<stream, pending>>

Next ==
    \/ Writes(IF stream = <<>> THEN Samples ELSE ChainSamples)
    \/ WriteRaw
    \/ Cut
    \/ Reads

Spec == Init /\ [][Next]_vars

NextPadded ==
    \/ Writes(PaddedSamples)
    \/ PaddedReads
    \/ ReadsThenSetPadding
    \/ SetPadding

SpecPadded == InitPadded /\ [][NextPadded]_vars

(***************************************************************************)
(* Properties.                                                             *)
(***************************************************************************)
Derived(T) == Kind(T) \in {"Struct", "Enum"}

\* the field types and field values of a struct value or an enum value
FieldTypes(T, v) == IF Kind(T) = "Struct" THEN T[4] ELSE T[4][v[1] + 1][2]

FieldVals(T, v) == IF Kind(T) = "Struct" THEN v ELSE v[2]

\* x, written alone and read back, comes back equal
RoundTrips(T, x) ==
    LET r == from_reader(T, serialize(T, x)) IN
    r.kind = "Ok" /\ partial_eq(T, x, r.val)

FieldsRoundTrip(T, v) ==
    \A k \in 1..Len(FieldTypes(T, v)) : RoundTrips(FieldTypes(T, v)[k], FieldVals(T, v)[k])

RECURSIVE Pow2(_)
Pow2(e) == IF e = 0 THEN 1 ELSE 2 * Pow2(e - 1)

\* the natural number i (below 2^31) is a value of the integer type T
Representable(i, T) ==
    LET bits == 8 * T[2] - (IF T[3] THEN 1 ELSE 0) IN
    bits >= 31 \/ i < Pow2(bits)

\* the variant index of an enum value fits the enum's tag type
TagFits(T, v) == Kind(T) = "Enum" => Representable(v[1], T[3])

\* the last call read back the one value written to an empty stream
ReadBackAlone == last.op = "reads" /\ last.alone /\ last.src # <<>>

ReadBackEqual == last.kind = "Ok" /\ partial_eq(last.ty, last.src[1], last.val)

\* C1, as stated: a value of a derived struct or enum whose fields each
\* round-trip, written to an empty stream, is read back equal.
C1_RoundTripDerived ==
    (ReadBackAlone /\ Derived(last.ty) /\ FieldsRoundTrip(last.ty, last.src[1]))
        => ReadBackEqual

\* C1, amended: the same for structs, and for the enum values whose variant
\* index is representable in the enum's tag type.
C1_RoundTripDerivedTagFits ==
    (/\ ReadBackAlone
     /\ Derived(last.ty)
     /\ FieldsRoundTrip(last.ty, last.src[1])
     /\ TagFits(last.ty, last.src[1]))
        => ReadBackEqual

\* an enum value with fields and a nested record was written and read back
C1_Witness ==
    /\ ReadBackAlone
    /\ last.ty = Packet
    /\ last.src[1][1] = 1
    /\ last.src[1][2][1][2] = <<"Some", John>>
    /\ ReadBackEqual

\* C2: a string, written to an empty stream, is read back equal, whether
\* it is empty, ends with U+0000 or holds U+0000 inside.
C2_StringRoundTrip ==
    (ReadBackAlone /\ last.ty = String) => ReadBackEqual

\* the concatenation of the encodings of the items vs of types Ts
RECURSIVE Concat(_, _)
Concat(Ts, vs) ==
    IF Len(Ts) = 0 THEN <<>>
    ELSE Concat(SubSeq(Ts, 1, Len(Ts) - 1), SubSeq(vs, 1, Len(vs) - 1))
            \o serialize(Ts[Len(Ts)], vs[Len(vs)])

\* the bytes the last writes() appended
Written == Drop(stream, Len(last.before))

JohnPacket == <<<<5>>, John, << <<1>>, <<2>>, <<3>> >> >>

JohnBytes == <<5, 74, 111, 104, 110, 0, 3, 0, 0, 0, 1, 2, 3>>

\* C3: writing a struct appends the encodings of its fields in declared
\* order and nothing else; NamedPacket {5, "John", [1,2,3]} is written as
\* 05 4A 6F 68 6E 00 03 00 00 00 01 02 03 and read back from these bytes.
C3_RecordIsConcatenation ==
    /\ (last.op = "writes" /\ Kind(last.ty) = "Struct") =>
            /\ SubSeq(stream, 1, Len(last.before)) = last.before
            /\ Written = Concat(last.ty[4], last.arg)
    /\ (last.op = "writes" /\ last.ty = NamedPacket /\ last.arg = JohnPacket) =>
            Written = JohnBytes
    /\ (last.op = "reads" /\ last.ty = NamedPacket /\ last.before = JohnBytes) =>
            last.kind = "Ok" /\ last.val = JohnPacket /\ stream = <<>>

\* the bytes of C3 were read back as the packet
C3_Witness ==
    /\ last.op = "reads"
    /\ last.ty = NamedPacket
    /\ last.before = JohnBytes
    /\ last.val = JohnPacket

\* the k-th least significant base-256 digit of a natural number i < 2^31
Digit(i, k) == IF k <= 4 THEN (i \div Pow256(k - 1)) % 256 ELSE 0

\* the little-endian bytes, read as a signed or unsigned integer, are the
\* natural number i
NumericValueIs(bytes, signed, i) ==
    /\ \A k \in 1..Len(bytes) : bytes[k] = Digit(i, k)
    /\ signed => bytes[Len(bytes)] < 128
    /\ Len(bytes) < 4 => i < Pow256(Len(bytes))

\* the tag bytes the generated code writes for variant j of enum type T
TagOf(T, j) == to_write_variant(j, T[3], <<>>, <<>>)

EnumWritten == last.op = "writes" /\ Kind(last.ty) = "Enum"

\* the last writes() of an enum value wrote the index of its variant as the
\* tag, then the variant's fields in declared order
TagIsIndex ==
    LET T == last.ty
        w == T[3][2]
        i == last.arg[1]
    IN  /\ Len(Written) >= w
        /\ NumericValueIs(SubSeq(Written, 1, w), T[3][3], i)
        /\ Drop(Written, w) = Concat(FieldTypes(T, last.arg), FieldVals(T, last.arg))

\* C4, as stated: every variant i of every enum, whatever the tag type, is
\* written with a tag of numeric value i followed by its fields, and no
\* other variant of the enum has the same tag.
C4_TagIsIndex ==
    EnumWritten =>
        /\ TagIsIndex
        /\ \A j \in 0..(Len(last.ty[4]) - 1) :
                j # last.arg[1] => TagOf(last.ty, j) # TagOf(last.ty, last.arg[1])

\* C4, amended: the same for the variants whose index is representable in
\* the tag type, and no other such variant has the same tag.
C4_TagIsIndexWhenRepresentable ==
    (EnumWritten /\ Representable(last.arg[1], last.ty[3])) =>
        /\ TagIsIndex
        /\ \A j \in 0..(Len(last.ty[4]) - 1) :
                (j # last.arg[1] /\ Representable(j, last.ty[3]))
                    => TagOf(last.ty, j) # TagOf(last.ty, last.arg[1])

\* EnumPacket::PlayerJoin(5, "John") was written: tag 1 as an i64, then the
\* two fields
C4_Witness ==
    /\ EnumWritten
    /\ last.ty = EnumPacket
    /\ last.arg = <<1, <<<<5>>, John>>>>
    /\ Written = <<1, 0, 0, 0, 0, 0, 0, 0, 5>> \o John \o <<0>>

\* C5: reading an enum from a stream that starts with a tag value outside
\* 0..n-1 fails with InvalidInput and yields no variant.
C5_CorruptTagFails ==
    LET T == last.ty
        w == T[3][2]
    IN  (/\ last.op = "reads"
         /\ Kind(T) = "Enum"
         /\ Len(last.before) >= w
         /\ ~ \E i \in 0..(Len(T[4]) - 1) :
                NumericValueIs(SubSeq(last.before, 1, w), T[3][3], i))
            => (last.kind = "InvalidInput" /\ last.val = <<>>)

IoError == last.kind = "UnexpectedEof" /\ last.val = <<>>

\* the length prefix at the head of s announces more items than s holds bytes
AnnouncesMore(s) ==
    s[2] # 0 \/ s[3] # 0 \/ s[4] # 0 \/ s[1] > Len(s) - U32Bytes

PaddedExample == <<255, 255, 255, 5, 0, 0, 0>>

\* C7: PaddedReader::reads with padding p on a stream of at least p bytes
\* discards the first p bytes, then returns what a plain reads() returns on
\* the stream without them and leaves what it leaves; on a shorter stream it
\* fails with an I/O error at the padding, before any decode; with p = 3 it
\* reads the u32 5 from FF FF FF 05 00 00 00.
C7_PaddedReads ==
    last.op = "padded_reads" =>
        LET p == last.pad
            plain == from_reader(last.ty, Drop(last.before, p))
        IN  /\ Len(last.before) >= p =>
                    /\ last.at = "decode"
                    /\ last.temp = SubSeq(last.before, 1, p)
                    /\ last.kind = plain.kind
                    /\ last.val = plain.val
                    /\ stream \in After(plain)
            /\ Len(last.before) < p =>
                    /\ last.at = "padding"
                    /\ last.kind = "UnexpectedEof"
                    /\ last.val = <<>>
            /\ (p = 3 /\ last.before = PaddedExample /\ last.ty = U32) =>
                    /\ last.kind = "Ok"
                    /\ last.val = <<0, 0, 0, 5>>
                    /\ stream = <<>>

\* the example of C7 was run
C7_Witness ==
    /\ last.op = "padded_reads"
    /\ last.pad = 3
    /\ last.before = PaddedExample
    /\ last.ty = U32
    /\ last.val = <<0, 0, 0, 5>>

\* C8: a reads_then_set_padding call discards the padding in force before
\* the call (the initial padding, or the value given to the latest
\* set_padding or successful reads_then_set_padding), and the value it is
\* given is the padding only after it has returned successfully.
C8_PaddingInForce ==
    last.op = "reads_then_set_padding" =>
        /\ last.at = "decode" =>
                /\ Len(last.temp) = last.force.val
                /\ last.temp = SubSeq(last.before, 1, last.force.val)
        /\ last.at = "padding" => Len(last.before) < last.force.val
        /\ last.kind = "Ok" => padding = last.arg
        /\ padding = inforce.val

\* a second call discarded the 3 bytes the call before it had asked for, and
\* was itself given 1
C8_Witness ==
    /\ last.op = "reads_then_set_padding"
    /\ last.force = Set("reads_then_set_padding", 3)
    /\ Len(last.temp) = 3
    /\ last.kind = "Ok"
    /\ last.arg = 1
    /\ padding = 1

\* C9: a bool is written as the byte 1 or 0 and read as "byte is not 0"; the
\* flag byte of an Option or a Result selects Some / Err when it is not 0,
\* whatever its value, and None / Ok when it is 0.
C9_Bool ==
    /\ (last.op = "writes" /\ last.ty = Bool) =>
            Written = (IF last.arg THEN <<1>> ELSE <<0>>)
    /\ (last.op = "reads" /\ last.ty = Bool /\ Len(last.before) >= 1) =>
            /\ last.kind = "Ok"
            /\ last.val = (last.before[1] # 0)
            /\ stream = Drop(last.before, 1)
    /\ (last.op = "reads" /\ Kind(last.ty) = "Option" /\ Len(last.before) >= 1) =>
            IF last.before[1] # 0
            THEN LET inner == from_reader(last.ty[2], Drop(last.before, 1)) IN
                 /\ last.kind = inner.kind
                 /\ last.kind = "Ok" => last.val = <<"Some", inner.val>>
            ELSE last.kind = "Ok" /\ last.val = <<"None">>
    /\ (last.op = "reads" /\ Kind(last.ty) = "Result" /\ Len(last.before) >= 1) =>
            LET branch == IF last.before[1] # 0 THEN 3 ELSE 2
                inner == from_reader(last.ty[branch], Drop(last.before, 1))
            IN  /\ last.kind = inner.kind
                /\ last.kind = "Ok" =>
                        last.val = <<IF branch = 3 THEN "Err" ELSE "Ok", inner.val>>

\* an Option<String> was read from FF 01 00: the flag 0xFF selected Some
C9_Witness ==
    /\ last.op = "reads"
    /\ last.ty = OptionTy(String)
    /\ last.before = <<255, 1, 0>>
    /\ last.val = <<"Some", <<1>>>>

\* the number of items of a Vec value, as a usize
NumItems(T, v) == IF Kind(T[2]) = "unit" THEN v ELSE Lit(Len(v), UsizeBytes)

\* the u32 at the head of s, widened to a usize
PrefixValue(s) == Repeat(0, UsizeBytes - U32Bytes) \o Reverse(SubSeq(s, 1, U32Bytes))

\* C10: a Vec of any length is written as a 4-byte little-endian prefix
\* whose value is the number of its items, then exactly its items in order;
\* a Vec read holds as many items as the prefix says.
C10_VecPrefix ==
    /\ (last.op = "writes" /\ Kind(last.ty) = "Vec") =>
            /\ Len(Written) >= U32Bytes
            /\ PrefixValue(Written) = NumItems(last.ty, last.arg)
            /\ Drop(Written, U32Bytes) =
                    (IF Kind(last.ty[2]) = "unit" THEN <<>>
                     ELSE Concat(Repeat(last.ty[2], Len(last.arg)), last.arg))
    /\ (last.op = "reads" /\ Kind(last.ty) = "Vec" /\ last.kind = "Ok") =>
            NumItems(last.ty, last.val) = PrefixValue(last.before)

\* the type of the branch a Result value holds
BranchTy(T, v) == IF v[1] = "Err" THEN T[3] ELSE T[2]

\* C11: a Result is written as the byte 1 for Err and 0 for Ok, then the
\* encoding of the error value for Err and of the success value for Ok; a
\* read decodes the error type after a nonzero flag and the success type
\* after a zero flag; a Result written to an empty stream is read back as
\* the same branch, and equal when the value it holds round-trips.
C11_Result ==
    /\ (last.op = "writes" /\ Kind(last.ty) = "Result") =>
            Written = <<IF last.arg[1] = "Err" THEN 1 ELSE 0>>
                        \o serialize(BranchTy(last.ty, last.arg), last.arg[2])
    /\ (last.op = "reads" /\ Kind(last.ty) = "Result" /\ Len(last.before) >= 1) =>
            LET flag == last.before[1] # 0
                inner == from_reader(IF flag THEN last.ty[3] ELSE last.ty[2],
                                     Drop(last.before, 1))
            IN  /\ last.kind = inner.kind
                /\ last.kind = "Ok" =>
                        /\ last.val = <<IF flag THEN "Err" ELSE "Ok", inner.val>>
                        /\ stream = inner.rest
    /\ (ReadBackAlone /\ Kind(last.ty) = "Result") =>
            /\ last.kind = "Ok"
            /\ last.val[1] = last.src[1][1]
            /\ RoundTrips(BranchTy(last.ty, last.src[1]), last.src[1][2])
                    => ReadBackEqual

\* Err("John") was written to an empty stream and read back as Err("John")
C11_Witness ==
    /\ ReadBackAlone
    /\ last.ty = ResultTy(U8, String)
    /\ last.src[1] = <<"Err", John>>
    /\ last.before = <<1>> \o John \o <<0>>
    /\ last.val = <<"Err", John>>

(***************************************************************************)
(* tora_derive/src/lib.rs: the derive macros.  An item is the declaration  *)
(* a derive is applied to: a struct with its syn::Fields (<<style, field   *)
(* types>>, style "Named", "Unnamed" or "Unit") or an enum with its        *)
(* variants (each a syn::Fields) and its type_variant_id attribute.  A     *)
(* derive returns the tokens it expands to: a compile_error!, or the impl  *)
(* for the type the generated code encodes and decodes; or it panics.      *)
(***************************************************************************)
\* fields declared in a struct
MaxFields == 2
\* variants declared in an enum
MaxVariants == 2

SeqsUpTo(S, n) == UNION {[1..k -> S] : k \in 0..n}

\* struct S { .. }, struct S( .. ); and struct S;
FieldsSet ==
    {<<style, ts>> : style \in {"Named", "Unnamed"}, ts \in SeqsUpTo({U8, String}, MaxFields)}
        \cup {<<"Unit", <<>>>>}

\* V, V(u8), V { a: u8, b: String } and V {}
VariantSet ==
    {<<"Unit", <<>>>>, <<"Unnamed", <<U8>>>>, <<"Named", <<U8, String>>>>, <<"Named", <<>>>>}

\* no attribute; #[type_variant_id(i64)]; a list that holds no type, as
\* #[type_variant_id()]; and no list, as #[type_variant_id] or
\* #[type_variant_id = "i64"]
AttrSet == {<<"absent">>, <<"list", <<I64>>>>, <<"list", <<>>>>, <<"path">>}

ItemStruct(fields) ==
    [item |-> "struct", ident |-> "S", fields |-> fields, variants |-> <<>>,
     attrs |-> <<"absent">>]

ItemEnum(variants, attrs) ==
    [item |-> "enum", ident |-> "E", fields |-> <<"Unit", <<>>>>, variants |-> variants,
     attrs |-> attrs]

Items ==
    {ItemStruct(f) : f \in FieldsSet}
        \cup {ItemEnum(vs, a) : vs \in SeqsUpTo(VariantSet, MaxVariants), a \in AttrSet}

\* syn::Fields::is_empty
Fields_is_empty(fields) == Len(fields[2]) = 0

CompileError(msg) == [out |-> "compile_error", msg |-> msg, trait |-> "", logic |-> <<>>]

\* a panic of the macro, which rustc reports as an error of the derive
Panicked == [out |-> "panic", msg |-> "unwrap", trait |-> "", logic |-> <<>>]

\* the impl block of impl_from_reader / impl_serialize_io for the type T
Emit(trait, T) == [out |-> "impl", msg |-> "", trait |-> trait, logic |-> <<T>>]

\* parse_macro_input!(tokens as ItemStruct / ItemEnum) on another item
parse_macro_input(item, as) ==
    IF item.item = as THEN <<>> ELSE <<CompileError("expected " \o as)>>

derive_empty_item_error == CompileError("This macro cannot be derived on empty items")

\* get_list_attr_or_default::<T>: any_tokens is TRUE for T = TokenStream,
\* which parses from any tokens, and FALSE for T = Type
get_list_attr_or_default(any_tokens, default, attrs) ==
    IF attrs[1] = "absent" THEN <<default>>
    ELSE IF attrs[1] = "path" THEN <<>>
    ELSE IF attrs[2] # <<>> THEN <<attrs[2][1]>>
    ELSE IF any_tokens THEN <<<<"tokens">>>>
    ELSE <<>>

\* a variant of derive_read_struct without the check for empty items
derive_read_struct_unchecked(item) ==
    IF parse_macro_input(item, "struct") # <<>> THEN parse_macro_input(item, "struct")[1]
    ELSE Emit("FromReader", StructTy(item.ident, item.fields[1], item.fields[2]))

derive_read_struct(item) ==
    IF parse_macro_input(item, "struct") # <<>> THEN parse_macro_input(item, "struct")[1]
    ELSE IF Fields_is_empty(item.fields) THEN derive_empty_item_error
    ELSE IF item.fields[1] = "Unit" THEN derive_empty_item_error
    ELSE Emit("FromReader", StructTy(item.ident, item.fields[1], item.fields[2]))

derive_write_struct(item) ==
    IF parse_macro_input(item, "struct") # <<>> THEN parse_macro_input(item, "struct")[1]
    ELSE IF Fields_is_empty(item.fields) THEN derive_empty_item_error
    ELSE Emit("SerializeIo", StructTy(item.ident, item.fields[1], item.fields[2]))

derive_read_enum(item) ==
    IF parse_macro_input(item, "enum") # <<>> THEN parse_macro_input(item, "enum")[1]
    ELSE IF Len(item.variants) = 0 THEN derive_empty_item_error
    ELSE LET path == get_list_attr_or_default(TRUE, U8, item.attrs) IN
         IF path = <<>> THEN Panicked
         ELSE Emit("FromReader", EnumTy(item.ident, path[1], item.variants))

derive_write_enum(item) ==
    IF parse_macro_input(item, "enum") # <<>> THEN parse_macro_input(item, "enum")[1]
    ELSE IF Len(item.variants) = 0 THEN derive_empty_item_error
    ELSE LET ty == get_list_attr_or_default(FALSE, U8, item.attrs) IN
         IF ty = <<>> THEN Panicked
         ELSE Emit("SerializeIo", EnumTy(item.ident, ty[1], item.variants))

\* the item a derive attribute is written on
InitDerive ==
    /\ stream = <<>>
    /\ padding = 0
    /\ inforce = Set("default", 0)
    /\ pending = <<>>
    /\ \E item \in Items : last = [NoCall EXCEPT !.op = "item", !.arg = item]

\* rustc expands one derive of the item
Expand(derive, tokens) ==
    /\ last.op = "item"
    /\ last' = [last EXCEPT !.op = derive, !.kind = tokens.out, !.val = tokens]
    /\ UNCHANGED <<stream, padding, inforce, pending>>

DeriveReadStruct == Expand("derive_read_struct", derive_read_struct(last.arg))

DeriveWriteStruct == Expand("derive_write_struct", derive_write_struct(last.arg))

DeriveReadEnum == Expand("derive_read_enum", derive_read_enum(last.arg))

DeriveWriteEnum == Expand("derive_write_enum", derive_write_enum(last.arg))

NextDerive ==
    \/ DeriveReadStruct
    \/ DeriveWriteStruct
    \/ DeriveReadEnum
    \/ DeriveWriteEnum

SpecDerive == InitDerive /\ [][NextDerive]_vars

StructDerives == {"derive_read_struct", "derive_write_struct"}

EnumDerives == {"derive_read_enum", "derive_write_enum"}

\* a derive was expanded on an item
DeriveExpanded == last.op \in StructDerives \cup EnumDerives

\* a struct without fields (unit struct included) or an enum without variants
ZeroItems(item) ==
    IF item.item = "struct" THEN item.fields[2] = <<>> ELSE item.variants = <<>>

\* the derive is one for the kind of the item
ForItsKind ==
    \/ last.op \in StructDerives /\ last.arg.item = "struct"
    \/ last.op \in EnumDerives /\ last.arg.item = "enum"

\* the expansion is an error and holds no encode or decode logic
GenerationError == last.val.out \in {"compile_error", "panic"} /\ last.val.logic = <<>>

\* the expansion is the impl for the declared shape, and no error
LogicEmitted ==
    /\ last.val.out = "impl"
    /\ Len(last.val.logic) = 1
    /\ IF last.arg.item = "struct"
       THEN /\ Kind(last.val.logic[1]) = "Struct"
            /\ last.val.logic[1][4] = last.arg.fields[2]
       ELSE /\ Kind(last.val.logic[1]) = "Enum"
            /\ last.val.logic[1][4] = last.arg.variants

\* the type_variant_id attribute is absent or a list holding a type
AttrWellFormed(item) == item.attrs \in {<<"absent">>, <<"list", <<I64>>>>}

\* C12, as stated: every derive on a struct without fields or an enum
\* without variants expands to an error and no logic, and the derives of a
\* non-empty struct or enum expand to the logic and no error.
C12_TwoOutcomes ==
    DeriveExpanded =>
        /\ ZeroItems(last.arg) => GenerationError
        /\ (~ZeroItems(last.arg) /\ ForItsKind) => LogicEmitted

\* C12, amended: the same, where the non-empty enum's type_variant_id
\* attribute is absent or a list holding a type.
C12_TwoOutcomesWellFormed ==
    DeriveExpanded =>
        /\ ZeroItems(last.arg) => GenerationError
        /\ (~ZeroItems(last.arg) /\ ForItsKind /\ AttrWellFormed(last.arg)) => LogicEmitted
        /\ GenerationError \/ LogicEmitted

\* WriteStruct on `struct S;` expanded to the error for empty items
C12_Witness ==
    /\ last.op = "derive_write_struct"
    /\ last.arg = ItemStruct(<<"Unit", <<>>>>)
    /\ last.val = derive_empty_item_error

\* C13: the padding of a PaddedReader changes only where the caller updates
\* it: a reads() call leaves it as it was, whether it succeeds or fails; a
\* reads_then_set_padding call that fails, at the padding or at the decode,
\* leaves it as it was, and one that succeeds sets it to the value given;
\* every other change is a set_padding call.
C13_PaddingFrame ==
    [][/\ last'.op = "padded_reads" => padding' = padding
       /\ last'.op = "reads_then_set_padding" =>
            padding' = (IF last'.kind = "Ok" THEN last'.arg ELSE padding)
       /\ padding' # padding =>
            last'.op \in {"set_padding", "reads_then_set_padding"}]_vars

\* a reads_then_set_padding call given another padding failed at the decode,
\* and the padding is what it was
C13_Witness ==
    /\ last.op = "reads_then_set_padding"
    /\ last.at = "decode"
    /\ last.kind = "UnexpectedEof"
    /\ last.arg # last.pad
    /\ padding = last.pad

\* C14: a read of a value written at the head of the stream returns the
\* value and consumes exactly its encoding, whatever follows it; so the
\* values written back to back are read back one after the other.
C14_ExactConsumption ==
    (last.op = "reads" /\ last.src # <<>>) =>
        /\ last.kind = "Ok"
        /\ last.val = last.src[1]
        /\ stream = Drop(last.before, Len(serialize(last.ty, last.src[1])))

\* the stream once the first k of the fields Ts have been decoded from s,
\* each by a reads() of its own
RECURSIVE StreamAfter(_, _, _)
StreamAfter(Ts, s, k) ==
    IF k = 0 THEN s ELSE from_reader(Ts[k], StreamAfter(Ts, s, k - 1)).rest

\* the reads() of field k, the fields before it decoded
FieldRead(Ts, s, k) == from_reader(Ts[k], StreamAfter(Ts, s, k - 1))

\* C15: a struct read decodes the fields in declared order; at the first
\* field whose decode fails it returns that field's error and no value, and
\* the stream is as that field's decode left it: no later field is read.
\* When no field fails it returns the fields' values.
C15_StopsAtFirstFailure ==
    (last.op = "reads" /\ Kind(last.ty) = "Struct") =>
        LET Ts == last.ty[4]
            s == last.before
            first == {k \in 1..Len(Ts) :
                        /\ FieldRead(Ts, s, k).kind # "Ok"
                        /\ \A j \in 1..(k - 1) : FieldRead(Ts, s, j).kind = "Ok"}
        IN  /\ first = {} =>
                    /\ last.kind = "Ok"
                    /\ last.val = [k \in 1..Len(Ts) |-> FieldRead(Ts, s, k).val]
                    /\ stream = StreamAfter(Ts, s, Len(Ts))
            /\ \A k \in first :
                    /\ last.kind = FieldRead(Ts, s, k).kind
                    /\ last.val = <<>>
                    /\ stream \in After(FieldRead(Ts, s, k))

\* a NamedPacket was read from 01 FF 00: the id is read, the sender is not
\* UTF-8, and the error is the sender's, not the content's
C15_Witness ==
    /\ last.op = "reads"
    /\ last.ty = NamedPacket
    /\ last.before = <<1, 255, 0>>
    /\ last.kind = "InvalidData"
    /\ last.val = <<>>
    /\ stream = <<>>

====
